---- MODULE Spec2Model ----
(***************************************************************************)
(* The transfer protocol core of nitroshare: libnitroshare's               *)
(* TransferPrivate (src/libnitroshare/src/transfer/transfer.cpp), modelled *)
(* as a sender Transfer and a receiver Transfer joined by a reliable FIFO  *)
(* packet transport.                                                       *)
(*                                                                         *)
(* Text (QString) is a sequence of Unicode code points, bytes (QByteArray) *)
(* a sequence of 0..255; the literal messages of the source are            *)
(* abbreviated to a few code points each.                                  *)
(***************************************************************************)
EXTENDS Integers, Sequences, FiniteSets, TLC

\* ------------------------------------------------------------------ bounds

\* Most items a bundle holds.
MaxItems == 2
\* Largest item size, in bytes.
MaxSize == 2
\* Packets the transport queues towards one peer before it stops signalling
\* packetSent to the sender (its flow control).
MaxQueue == 2
\* Environment events (cancel(), transport errors, foreign packets) per run.
MaxFaults == 1

VARIABLES
    env,        \* what the environment may do: [faulty, minChunk]
    bundle,     \* the sender's Bundle: a sequence of [name, type, size]
    d,          \* d[p]: the TransferPrivate of peer p
    src,        \* src[i]: the sender's Item i of the bundle: [open, pos, opens, closes]
    items,      \* the Items the receiver's handlers created, in creation order
    inbox,      \* inbox[p]: packets in flight towards p, oldest first
    unacked,    \* unacked[p]: packets p sent whose packetSent has not fired
    connected,  \* whether Transport::connected has fired at the sender
    closeCount, \* closeCount[p]: calls of transport->close() by p
    crashed,    \* crashed[p]: p's process died on a null or dangling pointer
    faults,     \* environment events so far
    wire,       \* wire[p]: the packets p gave to transport->sendPacket, in
                \* order, a run of Binary packets joined into one
    failedWith, \* failedWith[p]: the message with which p, not yet terminal,
                \* failed by itself (no transport error, no inbound Error
                \* packet) while its peer was not terminal; <<>> when it did not
    last        \* the latest handler run: what it emitted, sent and closed

vars == <<env, bundle, d, src, items, inbox, unacked, connected, closeCount,
          crashed, faults, wire, failedWith, last>>

Peers == {"Send", "Receive"}
Other(p) == IF p = "Send" THEN "Receive" ELSE "Send"

\* ------------------------------------------------- text, bytes and numbers

\* QString::toUtf8 of one code point (below U+0800).
Utf8Of(c) == IF c < 128 THEN <<c>> ELSE <<192 + (c \div 64), 128 + (c % 64)>>

RECURSIVE ToUtf8(_)
ToUtf8(s) == IF s = <<>> THEN <<>> ELSE Utf8Of(Head(s)) \o ToUtf8(Tail(s))

\* QString(const QByteArray &) decodes UTF-8; a byte that starts no valid
\* sequence decodes to U+FFFD.
RECURSIVE FromUtf8(_)
FromUtf8(b) ==
    IF b = <<>> THEN <<>>
    ELSE IF Head(b) < 128 THEN <<Head(b)>> \o FromUtf8(Tail(b))
    ELSE IF /\ Head(b) >= 192 /\ Head(b) < 224 /\ Len(b) >= 2
            /\ b[2] >= 128 /\ b[2] < 192
         THEN <<(Head(b) - 192) * 64 + (b[2] - 128)>> \o FromUtf8(Tail(Tail(b)))
    ELSE <<65533>> \o FromUtf8(Tail(b))

\* QString::number(n), n >= 0: the decimal digits as code points '0'..'9'.
RECURSIVE Number(_)
Number(n) == IF n < 10 THEN <<48 + n>> ELSE Number(n \div 10) \o <<48 + (n % 10)>>

IsDigits(s) == s # <<>> /\ \A i \in 1..Len(s) : s[i] >= 48 /\ s[i] <= 57

RECURSIVE DigitsValue(_)
DigitsValue(s) ==
    IF s = <<>> THEN 0 ELSE 10 * DigitsValue(SubSeq(s, 1, Len(s) - 1)) + (s[Len(s)] - 48)

\* The numbers the model writes have at most this many digits; the value of a
\* longer text is beyond TLC's integers.
FitsModel(s) == Len(s) <= 9

\* QString::toInt(): 0 when the text is no number (or does not fit an int).
ToInt(s) == IF IsDigits(s) /\ FitsModel(s) THEN DigitsValue(s) ELSE 0

\* QString::toLongLong(): 0 when the text is no number (or does not fit a
\* qint64).
ToLongLong(s) == IF IsDigits(s) /\ FitsModel(s) THEN DigitsValue(s) ELSE 0

\* ------------------------------------------------------------- messages

\* tr("transfer cancelled")
MsgCancelled == <<116, 99>>
\* tr("protocol error - unexpected packet")
MsgUnexpected == <<112, 101>>
\* tr("unable to open \"%1\" for reading").arg(name)
MsgOpenRead(name) == <<111, 114>> \o name
\* tr("unable to open \"%1\" for writing").arg(name)
MsgOpenWrite(name) == <<111, 119>> \o name
\* tr("unrecognized item type \"%1\"").arg(type)
MsgType(type) == <<117, 116>> \o type
\* QString("transfer header: %1").arg(error.errorString())
MsgTransferHeader(errorString) == <<116, 104>> \o errorString
\* QString("item header: %1").arg(error.errorString())
MsgItemHeader(errorString) == <<105, 104>> \o errorString
\* The message a Transport gives its error signal.
MsgTransport == <<120>>
\* QJsonParseError::errorString() of a payload that is no JSON.
ParseErrorString == <<105, 118>>

\* Item type tags: "file", "directory", and "widget", which no handler knows.
TypeFile == <<102>>
TypeDirectory == <<100>>
TypeWidget == <<119>>
\* HandlerRegistry::find(type) finds a handler for these.
Registered == {TypeFile, TypeDirectory}

\* Application::deviceName()
LocalDeviceName == <<110>>

\* ---------------------------------------------------------------- packets

NoDoc == [none |-> <<>>]
BytesContent(b) == [kind |-> "bytes", bytes |-> b, doc |-> NoDoc]
\* QJsonDocument(object).toJson()
ToJson(object) == [kind |-> "json", bytes |-> <<>>, doc |-> object]
\* QJsonDocument::fromJson(content, &error).object(), with error.error
FromJson(content) ==
    IF content.kind = "json" THEN [ok |-> TRUE, object |-> content.doc]
    ELSE [ok |-> FALSE, object |-> NoDoc]
\* object.value(key).toString(): the empty string for a missing key.
Value(object, key) == IF key \in DOMAIN object THEN object[key] ELSE <<>>
\* The bytes of a payload; a JSON text is a '{', a byte per member, and a '}'.
Raw(content) ==
    IF content.kind = "bytes" THEN content.bytes
    ELSE [i \in 1..(Cardinality(DOMAIN content.doc) + 2) |-> 123]

Packet(type, content) == [type |-> type, content |-> content]

\* ------------------------------------------------------------------ items

\* The bundle's items are named "a", "e-acute", "c", ... by position.
NameOf(i) == IF i = 2 THEN <<233>> ELSE <<96 + i>>
\* Item i holds the bytes 10i+1, 10i+2, ...
ContentOf(i, size) == [k \in 1..size |-> 10 * i + k]
\* Bundle::totalSize()
RECURSIVE TotalSize(_)
TotalSize(b) == IF b = <<>> THEN 0 ELSE Head(b).size + TotalSize(Tail(b))


\* JsonUtil::objectToJson(item): every property of the item, the size as a
\* decimal string.
ItemToJson(item) ==
    [name |-> item.name, type |-> item.type, size |-> Number(item.size)]

\* Handler::createItem(type, properties): a fresh, closed Item.
CreateItem(type, object) ==
    [name |-> Value(object, "name"), type |-> type,
     size |-> ToLongLong(Value(object, "size")), data |-> <<>>,
     open |-> FALSE, opens |-> 0, closes |-> 0, deleted |-> FALSE]


\* ------------------------------------------------------- TransferPrivate

\* The default of setSuccess's and setError's parameter `send`.
DefaultSend == FALSE

\* The constructor's member initialisers.
NewTransfer(direction, b) ==
    [protocolState |-> "TransferHeader",
     direction |-> direction,
     state |-> IF direction = "Send" THEN "Connecting" ELSE "InProgress",
     progress |-> 0,
     itemIndex |-> 0,
     itemCount |-> IF direction = "Send" THEN Len(b) ELSE 0,
     bytesTransferred |-> 0,
     bytesTotal |-> IF direction = "Send" THEN TotalSize(b) ELSE 0,
     currentItem |-> 0,
     currentItemBytesTransferred |-> 0,
     currentItemBytesTotal |-> 0,
     deviceName |-> <<>>,
     error |-> <<>>]

\* A handler runs on a record w: the peer's TransferPrivate (w.d), the Items it
\* touches (w.src, w.items), and what the run did to the outside: the packets
\* given to transport->sendPacket (w.sent), the signals emitted (w.emits), the
\* calls of transport->close() (w.closes), and whether it went through a null or
\* dangling pointer (w.ub) and died there (w.crash).
World(p) ==
    [d |-> d[p], src |-> src, items |-> items, sent |-> <<>>, emits |-> <<>>,
     closes |-> 0, ub |-> FALSE, crash |-> FALSE]

SendPacket(w, packet) == [w EXCEPT !.sent = Append(@, packet)]
Emit(w, signal, value) == [w EXCEPT !.emits = Append(@, <<signal, value>>)]
TransportClose(w) == [w EXCEPT !.closes = @ + 1]

\* updateProgress with the comparison to the old value forgotten.
updateProgressUnconditional(w) ==
    LET newProgress ==
            IF w.d.bytesTotal # 0
            THEN (100 * w.d.bytesTransferred) \div w.d.bytesTotal
            ELSE 0
    IN  Emit([w EXCEPT !.d.progress = newProgress], "progressChanged", newProgress)

updateProgress(w) ==
    LET newProgress ==
            IF w.d.bytesTotal # 0
            THEN (100 * w.d.bytesTransferred) \div w.d.bytesTotal
            ELSE 0
    IN  IF newProgress # w.d.progress
        THEN Emit([w EXCEPT !.d.progress = newProgress], "progressChanged", newProgress)
        ELSE w

\* setSuccess with the Success packet forgotten.
setSuccessUnsent(w, send) ==
    TransportClose(Emit([w EXCEPT !.d.state = "Succeeded"], "stateChanged", "Succeeded"))

setSuccess(w, send) ==
    LET w1 == IF send THEN SendPacket(w, Packet("Success", BytesContent(<<>>))) ELSE w
        w2 == Emit([w1 EXCEPT !.d.state = "Succeeded"], "stateChanged", "Succeeded")
    IN  TransportClose(w2)

setError(w, message, send) ==
    LET w1 == IF send
              THEN SendPacket(w, Packet("Error", BytesContent(ToUtf8(message))))
              ELSE w
        w2 == Emit([w1 EXCEPT !.d.error = message], "errorChanged", message)
        w3 == Emit([w2 EXCEPT !.d.state = "Failed"], "stateChanged", "Failed")
        w4 == TransportClose(w3)
    IN  [w4 EXCEPT !.d.protocolState = "Finished"]

sendTransferHeader(w) ==
    LET object == [name |-> LocalDeviceName,
                   count |-> Number(Len(bundle)),
                   size |-> Number(TotalSize(bundle))]
        w1 == SendPacket(w, Packet("Json", ToJson(object)))
    IN  [w1 EXCEPT !.d.protocolState = "ItemHeader"]

\* sendNext with ++itemIndex forgotten.
sendNextSameIndex(w) ==
    LET i == w.d.currentItem
        w1 == [w EXCEPT !.src[i].open = FALSE, !.src[i].closes = @ + 1]
    IN  IF w1.d.itemIndex = w1.d.itemCount
        THEN [w1 EXCEPT !.d.protocolState = "Finished"]
        ELSE [w1 EXCEPT !.d.protocolState = "ItemHeader"]

sendNext(w) ==
    LET i == w.d.currentItem
        w1 == [w EXCEPT !.src[i].open = FALSE, !.src[i].closes = @ + 1,
                        !.d.itemIndex = @ + 1]
    IN  IF w1.d.itemIndex = w1.d.itemCount
        THEN [w1 EXCEPT !.d.protocolState = "Finished"]
        ELSE [w1 EXCEPT !.d.protocolState = "ItemHeader"]

\* sendItemHeader with the test of the item's size forgotten: content is
\* announced for every item.
sendItemHeaderAlwaysContent(w, openOk, ubOut) ==
    IF w.d.itemIndex >= Len(bundle)
    THEN LET w1 == [w EXCEPT !.d.currentItem = 0, !.ub = TRUE]
         IN  IF ubOut = "crash"
             THEN [w1 EXCEPT !.crash = TRUE]
             ELSE setError(w1, MsgOpenRead(<<>>), TRUE)
    ELSE LET i == w.d.itemIndex + 1
             w1 == [w EXCEPT !.d.currentItem = i]
         IN  IF ~openOk
             THEN setError(w1, MsgOpenRead(bundle[i].name), TRUE)
             ELSE LET w2 == [w1 EXCEPT !.src[i].open = TRUE, !.src[i].pos = 0,
                                       !.src[i].opens = @ + 1,
                                       !.d.currentItemBytesTransferred = 0,
                                       !.d.currentItemBytesTotal = bundle[i].size]
                      w3 == SendPacket(w2, Packet("Json", ToJson(ItemToJson(bundle[i]))))
                  IN  [w3 EXCEPT !.d.protocolState = "ItemContent"]

\* openOk: whether Item::open succeeds; ubOut: the outcome of calling open()
\* through the null pointer that bundle->index(row past the end) yields.
sendItemHeader(w, openOk, ubOut) ==
    IF w.d.itemIndex >= Len(bundle)
    THEN LET w1 == [w EXCEPT !.d.currentItem = 0, !.ub = TRUE]
         IN  IF ubOut = "crash"
             THEN [w1 EXCEPT !.crash = TRUE]
             ELSE setError(w1, MsgOpenRead(<<>>), TRUE)
    ELSE LET i == w.d.itemIndex + 1
             w1 == [w EXCEPT !.d.currentItem = i]
         IN  IF ~openOk
             THEN setError(w1, MsgOpenRead(bundle[i].name), TRUE)
             ELSE LET w2 == [w1 EXCEPT !.src[i].open = TRUE, !.src[i].pos = 0,
                                       !.src[i].opens = @ + 1,
                                       !.d.currentItemBytesTransferred = 0,
                                       !.d.currentItemBytesTotal = bundle[i].size]
                      w3 == SendPacket(w2, Packet("Json", ToJson(ItemToJson(bundle[i]))))
                  IN  IF w3.d.currentItemBytesTotal # 0
                      THEN [w3 EXCEPT !.d.protocolState = "ItemContent"]
                      ELSE sendNext(w3)

\* Item::read(): the next n bytes of the item.
ItemRead(w, i, n) ==
    SubSeq(ContentOf(i, bundle[i].size), w.src[i].pos + 1, w.src[i].pos + n)

\* n: the length of the chunk read() returns.
sendItemContent(w, n) ==
    LET i == w.d.currentItem
        data == ItemRead(w, i, n)
        w1 == SendPacket([w EXCEPT !.src[i].pos = @ + Len(data)],
                         Packet("Binary", BytesContent(data)))
        w2 == updateProgress(
                [w1 EXCEPT !.d.bytesTransferred = @ + Len(data),
                           !.d.currentItemBytesTransferred = @ + Len(data)])
    IN  IF w2.d.currentItemBytesTransferred >= w2.d.currentItemBytesTotal
        THEN sendNext(w2)
        ELSE w2

processTransferHeader(w, packet) ==
    LET parsed == FromJson(packet.content)
        object == parsed.object
        deviceName == Value(object, "name")
        w1 == [w EXCEPT !.d.deviceName = deviceName]
        w2 == IF deviceName # <<>> THEN Emit(w1, "deviceNameChanged", deviceName) ELSE w1
    IN  IF ~parsed.ok
        THEN setError(w, MsgTransferHeader(ParseErrorString), TRUE)
        ELSE [w2 EXCEPT !.d.itemCount = ToInt(Value(object, "count")),
                        !.d.bytesTotal = ToLongLong(Value(object, "size")),
                        !.d.protocolState = "ItemHeader"]

processNext(w) ==
    LET i == w.d.currentItem
        w1 == [w EXCEPT !.items[i].open = FALSE, !.items[i].closes = @ + 1,
                        !.items[i].deleted = TRUE,
                        !.ub = @ \/ w.items[i].deleted,
                        !.d.itemIndex = @ + 1]
    IN  IF w1.d.itemIndex = w1.d.itemCount
        THEN setSuccess(w1, TRUE)
        ELSE [w1 EXCEPT !.d.protocolState = "ItemHeader"]

processItemHeader(w, packet, openOk) ==
    LET parsed == FromJson(packet.content)
        object == parsed.object
        type == IF "type" \in DOMAIN object THEN Value(object, "type")
                ELSE IF "directory" \in DOMAIN object THEN TypeDirectory
                ELSE TypeFile
        i == Len(w.items) + 1
        w1 == [w EXCEPT !.items = Append(@, CreateItem(type, object)),
                        !.d.currentItem = i]
        w2 == [w1 EXCEPT !.items[i].open = TRUE, !.items[i].opens = @ + 1,
                         !.d.currentItemBytesTransferred = 0,
                         !.d.currentItemBytesTotal = w1.items[i].size]
    IN  IF ~parsed.ok THEN setError(w, MsgItemHeader(ParseErrorString), TRUE)
        ELSE IF type \notin Registered THEN setError(w, MsgType(type), TRUE)
        ELSE IF ~openOk THEN setError(w1, MsgOpenWrite(w1.items[i].name), TRUE)
        ELSE IF w2.d.currentItemBytesTotal # 0
             THEN [w2 EXCEPT !.d.protocolState = "ItemContent"]
             ELSE processNext(w2)

\* processItemContent with the addition to bytesTransferred forgotten.
processItemContentUncounted(w, packet, ubOut) ==
    LET i == w.d.currentItem
        data == Raw(packet.content)
        dangling == w.items[i].deleted
        w1 == [w EXCEPT !.items[i].data = @ \o data, !.ub = @ \/ dangling]
        w2 == updateProgress(
                [w1 EXCEPT !.d.currentItemBytesTransferred = @ + Len(data)])
    IN  IF dangling /\ ubOut = "crash"
        THEN [w EXCEPT !.ub = TRUE, !.crash = TRUE]
        ELSE IF w2.d.currentItemBytesTransferred >= w2.d.currentItemBytesTotal
             THEN processNext(w2)
             ELSE w2

\* ubOut: the outcome of write() through a pointer to a deleted Item.
processItemContent(w, packet, ubOut) ==
    LET i == w.d.currentItem
        data == Raw(packet.content)
        dangling == w.items[i].deleted
        w1 == [w EXCEPT !.items[i].data = @ \o data,
                        !.ub = @ \/ dangling]
        w2 == updateProgress(
                [w1 EXCEPT !.d.bytesTransferred = @ + Len(data),
                           !.d.currentItemBytesTransferred = @ + Len(data)])
    IN  IF dangling /\ ubOut = "crash"
        THEN [w EXCEPT !.ub = TRUE, !.crash = TRUE]
        ELSE IF w2.d.currentItemBytesTransferred >= w2.d.currentItemBytesTotal
             THEN processNext(w2)
             ELSE w2

onPacketReceived(w, packet, openOk, ubOut) ==
    IF packet.type = "Error"
    THEN setError(w, FromUtf8(packet.content.bytes), DefaultSend)
    ELSE IF w.d.direction = "Send"
    THEN IF w.d.protocolState = "Finished" /\ packet.type = "Success"
         THEN setSuccess(w, DefaultSend)
         ELSE setError(w, MsgUnexpected, TRUE)
    ELSE CASE w.d.protocolState = "TransferHeader" -> processTransferHeader(w, packet)
           [] w.d.protocolState = "ItemHeader" -> processItemHeader(w, packet, openOk)
           [] w.d.protocolState = "ItemContent" -> processItemContent(w, packet, ubOut)
           [] w.d.protocolState = "Finished" -> w

onPacketSent(w, openOk, n, ubOut) ==
    IF w.d.direction = "Receive" THEN w
    ELSE CASE w.d.protocolState = "TransferHeader" -> sendTransferHeader(w)
           [] w.d.protocolState = "ItemHeader" -> sendItemHeader(w, openOk, ubOut)
           [] w.d.protocolState = "ItemContent" -> sendItemContent(w, n)
           [] w.d.protocolState = "Finished" -> w

\* The lambda connected to Transport::connected.
onConnected(w, openOk, n, ubOut) ==
    onPacketSent(Emit([w EXCEPT !.d.state = "InProgress"], "stateChanged", "InProgress"),
                 openOk, n, ubOut)

onError(w, message) == setError(w, message, TRUE)

cancel(w) == setError(w, MsgCancelled, TRUE)


\* ------------------------------------------------------------ the system

Terminal(st) == st \in {"Succeeded", "Failed"}

Types == IF env.faulty THEN {TypeFile, TypeWidget} ELSE {TypeFile}

\* Whether Item::open succeeds, for a handler run of p that opens an item.
OpenOutcomes(p) ==
    IF env.faulty /\ d[p].protocolState = "ItemHeader" THEN BOOLEAN ELSE {TRUE}

\* What a call through a null or dangling Item pointer may do: kill the
\* process, or return as if the object were there. The sender's pointer is
\* null when the bundle has no row itemIndex; the receiver's dangles once
\* processNext has deleted the item.
UbOutcomes(p) ==
    IF \/ /\ p = "Send"
          /\ d[p].protocolState = "ItemHeader"
          /\ d[p].itemIndex >= Len(bundle)
       \/ /\ p = "Receive"
          /\ d[p].protocolState = "ItemContent"
          /\ items[d[p].currentItem].deleted
    THEN {"crash", "proceed"}
    ELSE {"proceed"}

\* The lengths read() may return for the sender's current item.
Chunks ==
    LET i == d["Send"].currentItem
    IN  IF d["Send"].protocolState = "ItemContent"
        THEN env.minChunk..(bundle[i].size - src[i].pos)
        ELSE {0}

\* Packets a peer that is no Transfer may send.
ForeignPackets ==
    {Packet("Success", BytesContent(<<>>)),
     Packet("Error", BytesContent(<<101>>)),
     Packet("Binary", BytesContent(<<7>>)),
     Packet("Json", ToJson([name |-> <<120>>, size |-> <<49>>]))}

NoPacket == Packet("none", BytesContent(<<>>))

NoRun == [peer |-> "none", event |-> "none", packet |-> NoPacket, pre |-> "none",
          emits |-> <<>>, sent |-> <<>>, closes |-> 0, ub |-> FALSE]

Bundles(types) ==
    UNION {{[i \in 1..n |-> [name |-> NameOf(i), type |-> ts[i], size |-> ss[i]]] :
               ts \in [1..n -> types], ss \in [1..n -> 0..MaxSize]} :
           n \in 0..MaxItems}

InitWith(e) ==
    /\ env = e
    /\ bundle \in Bundles(IF e.faulty THEN {TypeFile, TypeWidget} ELSE {TypeFile})
    /\ d = [p \in Peers |-> NewTransfer(p, IF p = "Send" THEN bundle ELSE <<>>)]
    /\ src = [i \in 1..Len(bundle) |-> [open |-> FALSE, pos |-> 0, opens |-> 0, closes |-> 0]]
    /\ items = <<>>
    /\ inbox = [p \in Peers |-> <<>>]
    /\ unacked = [p \in Peers |-> 0]
    /\ connected = FALSE
    /\ closeCount = [p \in Peers |-> 0]
    /\ crashed = [p \in Peers |-> FALSE]
    /\ faults = 0
    /\ wire = [p \in Peers |-> <<>>]
    /\ failedWith = [p \in Peers |-> <<>>]
    /\ last = NoRun

Init == InitWith([faulty |-> TRUE, minChunk |-> 0])

InitClean == \E m \in {0, 1} : InitWith([faulty |-> FALSE, minChunk |-> m])

\* The record of the packets sent, with one more packet.
LogPacket(log, packet) ==
    IF packet.type = "Binary" /\ log # <<>> /\ log[Len(log)].type = "Binary"
    THEN [log EXCEPT ![Len(log)].content.bytes = @ \o packet.content.bytes]
    ELSE Append(log, packet)

RECURSIVE LogPackets(_, _)
LogPackets(log, sent) ==
    IF sent = <<>> THEN log ELSE LogPackets(LogPacket(log, Head(sent)), Tail(sent))

\* The effect of one handler run w of peer p on event `event` (with `packet`), `queues`
\* and `pending` being the transport's queues after it delivered the event.
Commit(p, event, packet, w, queues, pending) ==
    /\ d' = [d EXCEPT ![p] = w.d]
    /\ src' = w.src
    /\ items' = w.items
    /\ inbox' = [queues EXCEPT ![Other(p)] = @ \o w.sent]
    /\ unacked' = [pending EXCEPT ![p] = @ + Len(w.sent)]
    /\ closeCount' = [closeCount EXCEPT ![p] = @ + w.closes]
    /\ crashed' = [crashed EXCEPT ![p] = w.crash]
    /\ wire' = [wire EXCEPT ![p] = LogPackets(@, w.sent)]
    /\ failedWith' =
         IF /\ failedWith[p] = <<>>
            /\ event # "error"
            /\ \E k \in 1..Len(w.sent) : w.sent[k].type = "Error"
            /\ ~Terminal(d[p].state)
            /\ ~Terminal(d[Other(p)].state)
         THEN [failedWith EXCEPT ![p] = w.d.error]
         ELSE failedWith
    /\ last' = [peer |-> p, event |-> event, packet |-> packet, pre |-> d[p].state,
                emits |-> w.emits, sent |-> w.sent, closes |-> w.closes, ub |-> w.ub]
    /\ UNCHANGED <<env, bundle>>

\* Transport::connected at the sender. A transport that was closed while it
\* was connecting does not go on to connect.
Connected ==
    /\ ~connected
    /\ closeCount["Send"] = 0
    /\ ~crashed["Send"]
    /\ connected' = TRUE
    /\ \E openOk \in OpenOutcomes("Send"), n \in Chunks, ubOut \in UbOutcomes("Send") :
         \E w \in {onConnected(World("Send"), openOk, n, ubOut)} :
            Commit("Send", "connected", NoPacket, w, inbox, unacked)
    /\ UNCHANGED faults

\* Transport::packetSent at p: the transport is ready for p's next packet.
PacketSent(p) ==
    /\ unacked[p] > 0
    /\ ~crashed[p]
    /\ Len(inbox[Other(p)]) < MaxQueue
    /\ \E openOk \in OpenOutcomes(p), n \in Chunks, ubOut \in UbOutcomes(p) :
         \E w \in {onPacketSent(World(p), openOk, n, ubOut)} :
            Commit(p, "packetSent", NoPacket, w, inbox, [unacked EXCEPT ![p] = @ - 1])
    /\ UNCHANGED <<connected, faults>>

\* Transport::packetReceived at p, with the oldest packet in flight.
PacketReceived(p) ==
    /\ inbox[p] # <<>>
    /\ ~crashed[p]
    /\ \E openOk \in OpenOutcomes(p), ubOut \in UbOutcomes(p) :
         \E w \in {onPacketReceived(World(p), Head(inbox[p]), openOk, ubOut)} :
            Commit(p, "packetReceived", Head(inbox[p]), w,
                   [inbox EXCEPT ![p] = Tail(@)], unacked)
    /\ UNCHANGED <<connected, faults>>

\* Transport::error at p.
TransportError(p) ==
    /\ faults < MaxFaults
    /\ ~crashed[p]
    /\ faults' = faults + 1
    /\ \E w \in {onError(World(p), MsgTransport)} :
         Commit(p, "error", NoPacket, w, inbox, unacked)
    /\ UNCHANGED connected

\* Transfer::cancel() called on p.
Cancel(p) ==
    /\ faults < MaxFaults
    /\ ~crashed[p]
    /\ faults' = faults + 1
    /\ \E w \in {cancel(World(p))} :
         Commit(p, "cancel", NoPacket, w, inbox, unacked)
    /\ UNCHANGED connected

\* A transport that p has closed may discard what was in flight towards p.
Drop(p) ==
    /\ closeCount[p] > 0
    /\ inbox[p] # <<>>
    /\ inbox' = [inbox EXCEPT ![p] = Tail(@)]
    /\ last' = NoRun
    /\ UNCHANGED <<env, bundle, d, src, items, unacked, connected, closeCount,
                   crashed, faults, wire, failedWith>>

\* The peer of p is no Transfer and sends p a packet of its own making.
Inject(p) ==
    /\ faults < MaxFaults
    /\ faults' = faults + 1
    /\ \E packet \in ForeignPackets : inbox' = [inbox EXCEPT ![p] = Append(@, packet)]
    /\ last' = NoRun
    /\ UNCHANGED <<env, bundle, d, src, items, unacked, connected, closeCount,
                   crashed, wire, failedWith>>

\* A sender and a receiver Transfer, with no failure and no cancel.
NextClean ==
    \/ Connected
    \/ \E p \in Peers : PacketSent(p)
    \/ \E p \in Peers : PacketReceived(p)

\* ... with items that fail to open, unknown item types, transport errors
\* and cancel().
NextPair ==
    \/ Connected
    \/ \E p \in Peers : PacketSent(p)
    \/ \E p \in Peers : PacketReceived(p)
    \/ \E p \in Peers : TransportError(p)
    \/ \E p \in Peers : Cancel(p)
    \/ \E p \in Peers : Drop(p)

\* A sender and a receiver Transfer on a transport that delivers every packet,
\* with items that fail to open, unknown item types and cancel().
NextCancel ==
    \/ Connected
    \/ \E p \in Peers : PacketSent(p)
    \/ \E p \in Peers : PacketReceived(p)
    \/ \E p \in Peers : Cancel(p)

\* ... and with peers that send packets of their own making.
Next ==
    \/ Connected
    \/ \E p \in Peers : PacketSent(p)
    \/ \E p \in Peers : PacketReceived(p)
    \/ \E p \in Peers : TransportError(p)
    \/ \E p \in Peers : Cancel(p)
    \/ \E p \in Peers : Drop(p)
    \/ \E p \in Peers : Inject(p)

\* The transport delivers its events: Qt's event loop runs every queued
\* signal, and a reliable transport hands over every packet in flight.
Fairness ==
    /\ WF_vars(Connected)
    /\ \A p \in Peers : WF_vars(PacketSent(p))
    /\ \A p \in Peers : WF_vars(PacketReceived(p) \/ Drop(p))

Spec == Init /\ [][Next]_vars
SpecPair == Init /\ [][NextPair]_vars
SpecCancel == Init /\ [][NextCancel]_vars
SpecPairFair == Init /\ [][NextPair]_vars /\ Fairness
SpecClean == InitClean /\ [][NextClean]_vars
\* Without failures it is enough that the event loop runs some pending event.
SpecCleanFair == InitClean /\ [][NextClean]_vars /\ WF_vars(NextClean)


\* ----------------------------------------------------------------- claims

\* The signals and packets of the latest handler run.
Emitted(signal) == {k \in 1..Len(last.emits) : last.emits[k][1] = signal}
SentOfType(type) == {k \in 1..Len(last.sent) : last.sent[k].type = type}
FailedNow == \E k \in 1..Len(last.emits) : last.emits[k] = <<"stateChanged", "Failed">>

\* C1: once a Transfer is Succeeded or Failed, no later event makes it emit
\* stateChanged, errorChanged or progressChanged, or send a packet.
C1_TerminalIsSilent ==
    Terminal(last.pre) =>
        /\ Emitted("stateChanged") = {}
        /\ Emitted("errorChanged") = {}
        /\ Emitted("progressChanged") = {}
        /\ last.sent = <<>>

\* Connecting -> InProgress -> {Succeeded, Failed}, forward only.
Forward(from, to) ==
    \/ to = from
    \/ from = "Connecting" /\ to \in {"InProgress", "Succeeded", "Failed"}
    \/ from = "InProgress" /\ to \in {"Succeeded", "Failed"}

\* C2: in every step the state of each Transfer stays or moves forward along
\* Connecting -> InProgress -> {Succeeded, Failed}.
C2_StateMovesForward ==
    [][\A p \in Peers : Forward(d[p].state, d'[p].state)]_vars

\* C3: transport->close() has been called once if the Transfer is Succeeded
\* or Failed, and not at all before that.
C3_ClosedExactlyOnce ==
    \A p \in Peers : closeCount[p] = (IF Terminal(d[p].state) THEN 1 ELSE 0)

\* C4: cancel() or a transport error on a Transfer that is Succeeded or Failed
\* changes nothing of it, emits nothing, sends nothing and does not close the
\* transport again.
C4_TerminalCancelIsNoOp ==
    [][\A p \in Peers :
         (Terminal(d[p].state) /\ last'.peer = p /\ last'.event \in {"cancel", "error"})
            => /\ d'[p] = d[p]
               /\ last'.emits = <<>>
               /\ last'.sent = <<>>
               /\ last'.closes = 0]_vars

\* C5: a handler run that makes the Transfer fail sends no packet when the
\* failure came from an inbound Error packet or a transport error, and exactly
\* one Error packet carrying the message otherwise.
C5_ErrorPacketIffLocal ==
    FailedNow =>
        IF \/ last.event = "error"
           \/ last.event = "packetReceived" /\ last.packet.type = "Error"
        THEN last.sent = <<>>
        ELSE /\ Cardinality(SentOfType("Error")) = 1
             /\ \A k \in SentOfType("Error") :
                    last.sent[k].content = BytesContent(ToUtf8(d[last.peer].error))


\* C6: with no error and no cancel, the receiver's items are the bundle's, in
\* order: item k has the name, type and size of the bundle's item k and was
\* opened once; what was written to it is the start of item k's content; it
\* is closed (once) exactly when all of its content is written, and only the
\* newest item can be incomplete; a receiver that Succeeded has every item.
C6_ReceiverRebuildsBundle ==
    /\ Len(items) <= Len(bundle)
    /\ \A k \in 1..Len(items) :
         LET content == ContentOf(k, bundle[k].size)
         IN  /\ items[k].name = bundle[k].name
             /\ items[k].type = bundle[k].type
             /\ items[k].size = bundle[k].size
             /\ items[k].opens = 1
             /\ Len(items[k].data) <= Len(content)
             /\ items[k].data = SubSeq(content, 1, Len(items[k].data))
             /\ IF items[k].data = content
                THEN ~items[k].open /\ items[k].closes = 1
                ELSE items[k].open /\ items[k].closes = 0 /\ k = Len(items)
    /\ d["Receive"].state = "Succeeded" => Len(items) = Len(bundle)

\* A receiver that Succeeded with two items, the second of two bytes whose
\* last byte came in a packet of its own.
C6_Witness ==
    /\ d["Receive"].state = "Succeeded"
    /\ Len(items) = 2
    /\ items[1].data = ContentOf(1, bundle[1].size)
    /\ items[2].data = <<21, 22>>
    /\ last.peer = "Receive"
    /\ last.packet = Packet("Binary", BytesContent(<<22>>))

BothSucceeded ==
    /\ d["Send"].state = "Succeeded"
    /\ d["Receive"].state = "Succeeded"
    /\ TotalSize(bundle) > 0 => d["Send"].progress = 100 /\ d["Receive"].progress = 100

\* C7: for a bundle of at least one item whose read() never returns an empty
\* chunk, with no error and no cancel and every event delivered, both peers
\* eventually are Succeeded, with progress 100 if the bundle has any bytes.
C7_BothEventuallySucceed ==
    (Len(bundle) >= 1 /\ env.minChunk = 1) => <>BothSucceeded

C7_Witness ==
    /\ Len(bundle) >= 1
    /\ env.minChunk = 1
    /\ TotalSize(bundle) > 0
    /\ BothSucceeded

\* C8: with an empty bundle, the receiver is Succeeded (and has sent Success)
\* as soon as it has processed the transfer header, the sender never fetches
\* an item of the bundle, and the sender is Succeeded once it has taken the
\* Success packet.
C8_EmptyBundleSucceeds ==
    Len(bundle) = 0 =>
        /\ d["Receive"].protocolState # "TransferHeader" => d["Receive"].state = "Succeeded"
        /\ ~last.ub
        /\ d["Send"].currentItem = 0
        /\ ~crashed["Send"]
        /\ d["Send"].state # "Failed"

C9_PeerLearnsOfFailure ==
    \A p \in Peers :
        (failedWith[p] # <<>>)
            ~> (d[Other(p)].state = "Failed" /\ d[Other(p)].error = failedWith[p])

\* C11: a Transfer that has exchanged the transfer header of a bundle with
\* items has 0 <= itemIndex <= itemCount, and its protocolState is Finished
\* whenever itemIndex = itemCount (also the receiver's, after the last item
\* is complete and Success is sent).
C11_IndexWithinCount ==
    \A p \in Peers :
        (d[p].protocolState # "TransferHeader" /\ d[p].itemCount > 0) =>
            /\ 0 <= d[p].itemIndex
            /\ d[p].itemIndex <= d[p].itemCount
            /\ d[p].itemIndex = d[p].itemCount => d[p].protocolState = "Finished"

\* The Item that p's currentItem points to is there and open.
CurrentItemOpen(p) ==
    LET i == d[p].currentItem
    IN  IF p = "Send"
        THEN i \in 1..Len(src) /\ src[i].open
        ELSE i \in 1..Len(items) /\ items[i].open /\ ~items[i].deleted

\* C12: whenever the protocolState of a Transfer is ItemContent, its current
\* item exists and is open, and currentItemBytesTransferred is less than
\* currentItemBytesTotal.
C12_ItemContentHasOpenItem ==
    \A p \in Peers :
        d[p].protocolState = "ItemContent" =>
            /\ CurrentItemOpen(p)
            /\ d[p].currentItemBytesTransferred < d[p].currentItemBytesTotal

\* The Items p has opened and not closed.
OpenItems(p) ==
    IF p = "Send" THEN {i \in 1..Len(src) : src[i].open}
    ELSE {i \in 1..Len(items) : items[i].open}

\* C13: a Transfer that is Succeeded or Failed has closed every item it
\* opened, whatever ended it: the last item, a local error, cancel(), an
\* Error packet or a transport error.
C13_NoItemLeftOpen ==
    \A p \in Peers : Terminal(d[p].state) => OpenItems(p) = {}

\* C14: once a Transfer is past the transfer header, its bytesTransferred is
\* within 0..bytesTotal, whatever item headers and Binary packets the peer
\* sends the receiver and however read() cuts the sender's items.
C14_BytesWithinTotal ==
    \A p \in Peers :
        d[p].protocolState # "TransferHeader" =>
            /\ 0 <= d[p].bytesTransferred
            /\ d[p].bytesTransferred <= d[p].bytesTotal

\* C15: in every step the progress of each Transfer stays within 0..100 and
\* does not decrease, whatever packets it receives and however read() cuts
\* the items.
C15_ProgressBoundedMonotone ==
    [][\A p \in Peers :
         /\ d'[p].progress >= d[p].progress
         /\ d'[p].progress >= 0
         /\ d'[p].progress <= 100]_vars

\* floor(100 * bytesTransferred / bytesTotal), and 0 when there are no bytes.
ProgressValue(t) ==
    IF t.bytesTotal > 0 THEN (100 * t.bytesTransferred) \div t.bytesTotal ELSE 0

\* C16: after every step the progress of each Transfer is
\* floor(100 * bytesTransferred / bytesTotal) (0 when bytesTotal = 0), and the
\* step emitted progressChanged exactly if that value changed.
C16_ProgressIsPercentage ==
    [][\A p \in Peers :
         /\ d'[p].progress = ProgressValue(d'[p])
         /\ (ProgressValue(d'[p]) # ProgressValue(d[p]))
               <=> (last'.peer = p /\ \E k \in 1..Len(last'.emits) :
                                         last'.emits[k][1] = "progressChanged")]_vars

\* The receiver has just reported 66 percent: 2 bytes of 3.
C16_Witness ==
    /\ last.peer = "Receive"
    /\ last.emits = <<(<<"progressChanged", 66>>)>>
    /\ d["Receive"].bytesTransferred = 2
    /\ d["Receive"].bytesTotal = 3
    /\ d["Receive"].progress = 66

\* A packet of this type does not fit a receiver in this protocolState.
Misfit(type, protocolState) ==
    \/ type = "Success"
    \/ type = "Binary" /\ protocolState \in {"TransferHeader", "ItemHeader"}
    \/ type = "Json" /\ protocolState = "ItemContent"

\* C17: a receiver that is not yet Succeeded or Failed and takes a packet
\* whose type does not fit its protocolState fails with "protocol error -
\* unexpected packet", sends one Error packet with that message, writes
\* nothing to any item and counts no bytes.
C17_UnexpectedPacketFails ==
    [][(/\ last'.peer = "Receive"
        /\ last'.event = "packetReceived"
        /\ ~Terminal(d["Receive"].state)
        /\ Misfit(last'.packet.type, d["Receive"].protocolState))
       => /\ d'["Receive"].state = "Failed"
          /\ d'["Receive"].error = MsgUnexpected
          /\ last'.sent = <<Packet("Error", BytesContent(ToUtf8(MsgUnexpected)))>>
          /\ \A i \in 1..Len(items) : items'[i].data = items[i].data
          /\ d'["Receive"].bytesTransferred = d["Receive"].bytesTransferred]_vars

\* The packets of an error-free transfer of the items k.. of bundle b, what
\* the sender sends of one item's content being one entry.
RECURSIVE ItemsOnWire(_, _)
ItemsOnWire(b, k) ==
    IF k > Len(b) THEN <<>>
    ELSE <<Packet("Json", ToJson(ItemToJson(b[k])))>>
         \o (IF b[k].size > 0
             THEN <<Packet("Binary", BytesContent(ContentOf(k, b[k].size)))>>
             ELSE <<>>)
         \o ItemsOnWire(b, k + 1)

ExpectedWire(b) ==
    <<Packet("Json", ToJson([name |-> LocalDeviceName,
                             count |-> Number(Len(b)),
                             size |-> Number(TotalSize(b))]))>>
    \o ItemsOnWire(b, 1)

\* log is the start of expected; its last entry may be the start of a run of
\* Binary packets.
StartsWire(log, expected) ==
    /\ Len(log) <= Len(expected)
    /\ \A k \in 1..Len(log) :
         \/ log[k] = expected[k]
         \/ /\ k = Len(log)
            /\ log[k].type = "Binary"
            /\ expected[k].type = "Binary"
            /\ Len(log[k].content.bytes) < Len(expected[k].content.bytes)
            /\ log[k].content.bytes =
                 SubSeq(expected[k].content.bytes, 1, Len(log[k].content.bytes))

ErrorFree == \A p \in Peers : d[p].state # "Failed" /\ ~crashed[p]

\* C18: while no Transfer has failed, what the sender has sent is the start of:
\* the transfer header, then per item of the bundle, in order, its item header
\* and, exactly if its size is > 0, Binary packets with its content; a sender
\* that is Finished has sent all of it. The receiver has sent nothing until
\* it is Succeeded and one Success packet then, with every item of the bundle
\* received and closed.
C18_PacketsInOrder ==
    ErrorFree =>
        /\ StartsWire(wire["Send"], ExpectedWire(bundle))
        /\ d["Send"].protocolState = "Finished" => wire["Send"] = ExpectedWire(bundle)
        /\ IF d["Receive"].state = "Succeeded"
           THEN /\ wire["Receive"] = <<Packet("Success", BytesContent(<<>>))>>
                /\ Len(items) = Len(bundle)
                /\ \A i \in 1..Len(items) : ~items[i].open /\ items[i].closes = 1
           ELSE wire["Receive"] = <<>>

\* The receiver sends Success on the second Binary packet of the second item,
\* the first item having no content.
C18_Witness ==
    /\ ErrorFree
    /\ Len(bundle) = 2
    /\ bundle[1].size = 0
    /\ bundle[2].size = 2
    /\ last.peer = "Receive"
    /\ last.packet = Packet("Binary", BytesContent(<<22>>))
    /\ last.sent = <<Packet("Success", BytesContent(<<>>))>>
    /\ wire["Send"] = ExpectedWire(bundle)
    /\ Len(wire["Send"]) = 4

\* C19: a packetSent (or the connected that stands for the first one) handled
\* by the sender results in exactly one call of sendPacket if its
\* protocolState was TransferHeader, ItemHeader or ItemContent and in none if
\* it was Finished; handled by the receiver it sends nothing and changes
\* nothing.
C19_OnePacketPerPacketSent ==
    [][(last'.event \in {"packetSent", "connected"}) =>
         IF last'.peer = "Send"
         THEN Len(last'.sent) = (IF d["Send"].protocolState = "Finished" THEN 0 ELSE 1)
         ELSE /\ last'.sent = <<>>
              /\ last'.emits = <<>>
              /\ last'.closes = 0
              /\ d'["Receive"] = d["Receive"]
              /\ items' = items]_vars

\* C20: on a transport that delivers every packet, with cancel() at any
\* moment on either peer, once both Transfers are Succeeded or Failed and no
\* packet is in flight, both have the same state.
C20_OutcomesAgree ==
    (/\ Terminal(d["Send"].state)
     /\ Terminal(d["Receive"].state)
     /\ inbox["Send"] = <<>>
     /\ inbox["Receive"] = <<>>)
        => d["Send"].state = d["Receive"].state

====
